---- MODULE Spec2Model ----
(***************************************************************************)
(* Model of infra.ts: the orchestrator (async IIFE), BackendStack and the  *)
(* filehash utility, on top of the Node.js event loop.                     *)
(*                                                                         *)
(* JavaScript runs to completion: `control` says whether the main script   *)
(* is still on the stack ("js") or the stack has unwound to the event loop *)
(* ("loop").  Every event-loop callback is one action: the emitted event's *)
(* listeners run in registration order and the microtask queue is drained  *)
(* (the continuations of the awaiting async functions) before the action   *)
(* ends.                                                                   *)
(***************************************************************************)
EXTENDS Integers, Sequences, FiniteSets, TLC

VARIABLES
    STAGE,      \* the stage identifier handed to both stacks
    artifact,   \* ../backend/dist/lambda.zip on disk
    control,    \* "js": main script on the stack, "loop": event loop
    proc,       \* the node process: running, exited, crashed
    uncaught,   \* the error an uncaught exception carried, or "none"
    iife,       \* position of the orchestrator (async IIFE)
    app,        \* the cdktf App
    frontend,   \* the FrontendStack
    backend,    \* the BackendStack call: position, opts, returned promise
    resources,  \* constructs declared in the backend stack, in order
    fd,         \* the fs.ReadStream of filehash
    hash,       \* the crypto Hash of filehash
    listeners,  \* registered event listeners, in registration order
    promise     \* the promise filehash returned

vars == <<STAGE, artifact, control, proc, uncaught, iife, app, frontend,
          backend, resources, fd, hash, listeners, promise>>

-----------------------------------------------------------------------------
(* Bounds *)

MaxStageLen == 2
MaxFileLen == 3
ChunkSize == 2

StageChars == {"d", "-", "s"}
Bytes == {"a", "b"}
FrontendUrls == {"https://front.example", "https://other.example"}

None == "none"
Null == "null"

-----------------------------------------------------------------------------
(* Inputs *)

RECURSIVE StagesOfLen(_)
StagesOfLen(n) ==
    IF n = 0 THEN {""}
    ELSE {s \o c : s \in StagesOfLen(n - 1), c \in StageChars}

Stages == {"dev", "prod"} \cup UNION {StagesOfLen(n) : n \in 0..MaxStageLen}

RECURSIVE ContentsOfLen(_)
ContentsOfLen(n) ==
    IF n = 0 THEN {<<>>}
    ELSE {Append(s, b) : s \in ContentsOfLen(n - 1), b \in Bytes}

Contents == UNION {ContentsOfLen(n) : n \in 0..MaxFileLen}

Artifacts ==
    {[exists |-> TRUE, readable |-> TRUE, content |-> c] : c \in Contents}
    \cup {[exists |-> TRUE, readable |-> FALSE, content |-> c] :
            c \in ContentsOfLen(1)}
    \cup {[exists |-> FALSE, readable |-> FALSE, content |-> <<>>]}

-----------------------------------------------------------------------------
(* Resource names: the template literals of BackendStack *)

TableName_noStage(stage) == "todo-cdktf-stack"

TableName(stage) == "todo-cdktf-stack-" \o stage

RoleName(stage) == "lambda-api-cdktf-stack-" \o stage

PolicyName(stage) == "lambda-api-cdktf-stack-" \o stage

LogGroupName(stage) == "/aws/apigateway/todos-api-cdktf-stack-" \o stage

ApiName(stage) == "todos-api-cdktf-stack-" \o stage

FunctionName(stage) == "todos-api-cdktf-stack-" \o stage

Construct(id, name, ref) == [id |-> id, name |-> name, ref |-> ref]

-----------------------------------------------------------------------------
(* filehash: hash, read stream, listeners *)

RECURSIVE Base64(_)
Base64(bs) == IF bs = <<>> THEN "" ELSE Head(bs) \o Base64(Tail(bs))

\* hash.read() with base64 encoding: the digest of everything written once
\* the writable side was ended, null before.
Digest(bs) == "sha256:" \o Base64(bs)

HashRead(h) == IF h.ended THEN Digest(h.written) ELSE Null

FilehashListeners_onData == << <<"fd", "data", "resolve">> >>

FilehashListeners_onErrorResolve ==
    << <<"fd", "finish", "resolve">>, <<"fd", "error", "resolve">> >>

FilehashListeners_onErrorReject ==
    << <<"fd", "finish", "resolve">>, <<"fd", "error", "reject">> >>

\* fd.on('finish', () => resolve(hash.read()))
FilehashListeners == << <<"fd", "finish", "resolve">> >>

\* fd.pipe(hash): on the source, ondata writes the chunk to the hash and
\* onend ends it; on the destination, onfinish unpipes.
PipeListeners ==
    << <<"fd", "data", "pipe.ondata">>, <<"fd", "end", "pipe.onend">>,
       <<"hash", "finish", "pipe.onfinish">> >>

HasListener(ls, em, ev) ==
    \E i \in 1..Len(ls) : ls[i][1] = em /\ ls[i][2] = ev

\* A promise settles once: later resolve/reject calls are ignored.
SettlePromise(p, state, value) ==
    IF p.state = "pending" THEN [state |-> state, value |-> value] ELSE p

\* One listener called with the event's argument, on hash h and promise p.
RunHandler(handler, arg, h, p) ==
    CASE handler = "resolve" ->
            [hash |-> h, promise |-> SettlePromise(p, "resolved", HashRead(h))]
      [] handler = "reject" ->
            [hash |-> h, promise |-> SettlePromise(p, "rejected", arg)]
      [] handler = "pipe.ondata" ->
            [hash |-> [h EXCEPT !.written = h.written \o arg], promise |-> p]
      [] handler = "pipe.onend" ->
            [hash |-> [h EXCEPT !.ended = TRUE], promise |-> p]
      [] OTHER -> [hash |-> h, promise |-> p]

\* emitter.emit(ev, arg): the listeners of <<em, ev>> in registration order.
RECURSIVE Emit(_, _, _, _, _, _)
Emit(ls, em, ev, arg, h, p) ==
    IF ls = <<>> THEN [hash |-> h, promise |-> p]
    ELSE LET l == Head(ls)
             r == IF l[1] = em /\ l[2] = ev
                  THEN RunHandler(l[3], arg, h, p)
                  ELSE [hash |-> h, promise |-> p]
         IN  Emit(Tail(ls), em, ev, arg, r.hash, r.promise)

-----------------------------------------------------------------------------
(* Initial state: the process has started, nothing has run yet *)

Init ==
    /\ STAGE \in Stages
    /\ artifact \in Artifacts
    /\ control = "js"
    /\ proc = "running"
    /\ uncaught = None
    /\ iife = "start"
    /\ app = [created |-> FALSE, synthCount |-> 0]
    /\ frontend = [constructed |-> FALSE, url |-> None]
    /\ backend = [pc |-> "idle", stage |-> None, frontendUrl |-> None,
                  promise |-> None]
    /\ resources = <<>>
    /\ fd = [state |-> "none", pos |-> 0]
    /\ hash = [created |-> FALSE, written |-> <<>>, ended |-> FALSE,
               finished |-> FALSE]
    /\ listeners = <<>>
    /\ promise = [state |-> None, value |-> None]

Running == proc = "running" /\ control = "js"

InLoop == proc = "running" /\ control = "loop"

-----------------------------------------------------------------------------
(* The orchestrator, synchronous part *)

\* const app = new App();
NewApp ==
    /\ Running /\ iife = "start"
    /\ app' = [app EXCEPT !.created = TRUE]
    /\ iife' = "app"
    /\ UNCHANGED <<STAGE, artifact, control, proc, uncaught, frontend,
                   backend, resources, fd, hash, listeners, promise>>

\* const frontend = new FrontendStack(app, 'frontend', { stage: STAGE });
NewFrontendStack ==
    /\ Running /\ iife = "app"
    /\ \E u \in FrontendUrls :
          frontend' = [constructed |-> TRUE, url |-> u]
    /\ iife' = "frontend"
    /\ UNCHANGED <<STAGE, artifact, control, proc, uncaught, app,
                   backend, resources, fd, hash, listeners, promise>>

\* BackendStack(app, 'backend', { stage: STAGE, frontendUrl: frontend.url.value })
\* is entered: const stack = new TerraformStack(scope, id);
CallBackendStack ==
    /\ Running /\ iife = "frontend" /\ backend.pc = "idle"
    /\ backend' = [pc |-> "provider", stage |-> STAGE,
                   frontendUrl |-> frontend.url, promise |-> None]
    /\ iife' = "inBackend"
    /\ UNCHANGED <<STAGE, artifact, control, proc, uncaught, app, frontend,
                   resources, fd, hash, listeners, promise>>

-----------------------------------------------------------------------------
(* BackendStack, up to the await *)

Declare(at, c, next) ==
    /\ Running /\ backend.pc = at
    /\ resources' = Append(resources, c)
    /\ backend' = [backend EXCEPT !.pc = next]
    /\ UNCHANGED <<STAGE, artifact, control, proc, uncaught, iife, app,
                   frontend, fd, hash, listeners, promise>>

DeclareProvider ==
    Declare("provider", Construct("AWS", None, backend.stage), "table")

DeclareTable ==
    Declare("table",
            Construct("todos-table", TableName(backend.stage), None), "role")

DeclareRole ==
    Declare("role",
            Construct("lambda-role", RoleName(backend.stage),
                      PolicyName(backend.stage)), "logs")

DeclareLogs ==
    Declare("logs",
            Construct("todos-logs", LogGroupName(backend.stage), None), "api")

DeclareApi ==
    Declare("api",
            Construct("todos-api", ApiName(backend.stage),
                      backend.frontendUrl), "stage")

DeclareStage ==
    Declare("stage", Construct("default-stage", "$default", None), "lambda")

\* filehash(file): the promise executor runs synchronously.
CallFilehash ==
    /\ Running /\ backend.pc = "lambda"
    /\ hash' = [created |-> TRUE, written |-> <<>>, ended |-> FALSE,
                finished |-> FALSE]
    /\ fd' = [state |-> "created", pos |-> 0]
    /\ listeners' = FilehashListeners \o PipeListeners
    /\ promise' = [state |-> "pending", value |-> None]
    /\ backend' = [backend EXCEPT !.pc = "hashCalled"]
    /\ UNCHANGED <<STAGE, artifact, control, proc, uncaught, iife, app,
                   frontend, resources>>

-----------------------------------------------------------------------------
(* BackendStack after the await, and the orchestrator after its await *)

\* new lambda.LambdaFunction(... sourceCodeHash ...) and what follows it
LambdaAndRest(stage, sourceCodeHash) ==
    << Construct("lambda-api", FunctionName(stage), sourceCodeHash),
       Construct("lambda-permission", None, None),
       Construct("todos-lambda-integration", None, None),
       Construct("todos-lambda-rooute", None, None),
       Construct("api-url", None, None) >>

\* sourceCodeHash: filehash(...) without the await: the constructs are
\* declared at once, the hash being the pending promise.
SuspendBackendStack_noAwait ==
    /\ Running /\ backend.pc = "hashCalled"
    /\ resources' = resources \o LambdaAndRest(backend.stage, "[object Promise]")
    /\ backend' = [backend EXCEPT !.pc = "done", !.promise = "resolved"]
    /\ iife' = "gotPromise"
    /\ UNCHANGED <<STAGE, artifact, control, proc, uncaught, app, frontend,
                   fd, hash, listeners, promise>>

\* sourceCodeHash: await filehash(...): BackendStack suspends and hands its
\* own pending promise to the caller.
SuspendBackendStack ==
    /\ Running /\ backend.pc = "hashCalled"
    /\ backend' = [backend EXCEPT !.pc = "awaitHash", !.promise = "pending"]
    /\ iife' = "gotPromise"
    /\ UNCHANGED <<STAGE, artifact, control, proc, uncaught, app, frontend,
                   resources, fd, hash, listeners, promise>>

\* BackendStack(...) not awaited: app.synth() runs at once.
AwaitBackendStack_noAwait ==
    /\ Running /\ iife = "gotPromise"
    /\ control' = "loop"
    /\ iife' = "done"
    /\ app' = [app EXCEPT !.synthCount = @ + 1]
    /\ UNCHANGED <<STAGE, artifact, proc, uncaught, frontend, backend,
                   resources, fd, hash, listeners, promise>>

\* await BackendStack(...): the IIFE suspends and the stack unwinds to the
\* event loop; were the promise already resolved, the continuation
\* (app.synth()) would run as the first microtask.
AwaitBackendStack ==
    /\ Running /\ iife = "gotPromise"
    /\ control' = "loop"
    /\ IF backend.promise = "resolved"
       THEN /\ iife' = "done"
            /\ app' = [app EXCEPT !.synthCount = @ + 1]
       ELSE /\ iife' = "awaitBackend"
            /\ app' = app
    /\ UNCHANGED <<STAGE, artifact, proc, uncaught, frontend, backend,
                   resources, fd, hash, listeners, promise>>

\* The microtasks that follow an event-loop callback which left the hash as
\* h and filehash's promise as p.
Settle(h, p) ==
    /\ hash' = h
    /\ promise' = p
    /\ IF backend.pc = "awaitHash" /\ p.state = "resolved"
       THEN /\ resources' = resources \o LambdaAndRest(backend.stage, p.value)
            /\ backend' = [backend EXCEPT !.pc = "done", !.promise = "resolved"]
            /\ IF iife = "awaitBackend"
               THEN /\ iife' = "done"
                    /\ app' = [app EXCEPT !.synthCount = @ + 1]
               ELSE UNCHANGED <<iife, app>>
            /\ UNCHANGED <<proc, uncaught>>
       ELSE IF backend.pc = "awaitHash" /\ p.state = "rejected"
       THEN /\ backend' = [backend EXCEPT !.pc = "threw", !.promise = "rejected"]
            /\ iife' = IF iife = "awaitBackend" THEN "threw" ELSE iife
            /\ proc' = "crashed"
            /\ uncaught' = p.value
            /\ UNCHANGED <<resources, app>>
       ELSE UNCHANGED <<backend, resources, iife, app, proc, uncaught>>

-----------------------------------------------------------------------------
(* Event-loop callbacks of the read stream and the hash *)

ErrorCode == IF artifact.exists THEN "EACCES" ELSE "ENOENT"

\* The file was opened: 'open'.
FdOpen ==
    /\ InLoop /\ fd.state = "created" /\ artifact.readable
    /\ fd' = [fd EXCEPT !.state = "open"]
    /\ LET r == Emit(listeners, "fd", "open", None, hash, promise)
       IN  Settle(r.hash, r.promise)
    /\ UNCHANGED <<STAGE, artifact, control, frontend, listeners>>

\* The open failed: 'error'.  An 'error' event nobody listens to is thrown.
FdError ==
    /\ InLoop /\ fd.state = "created" /\ ~artifact.readable
    /\ fd' = [fd EXCEPT !.state = "errored"]
    /\ IF HasListener(listeners, "fd", "error")
       THEN LET r == Emit(listeners, "fd", "error", ErrorCode, hash, promise)
            IN  Settle(r.hash, r.promise)
       ELSE /\ proc' = "crashed"
            /\ uncaught' = ErrorCode
            /\ UNCHANGED <<hash, promise, backend, resources, iife, app>>
    /\ UNCHANGED <<STAGE, artifact, control, frontend, listeners>>

Min(a, b) == IF a < b THEN a ELSE b

\* One chunk was read: 'data'.
FdData ==
    /\ InLoop /\ fd.state = "open" /\ fd.pos < Len(artifact.content)
    /\ LET n == Min(ChunkSize, Len(artifact.content) - fd.pos)
           chunk == SubSeq(artifact.content, fd.pos + 1, fd.pos + n)
           r == Emit(listeners, "fd", "data", chunk, hash, promise)
       IN  /\ fd' = [fd EXCEPT !.pos = fd.pos + n]
           /\ Settle(r.hash, r.promise)
    /\ UNCHANGED <<STAGE, artifact, control, frontend, listeners>>

\* End of file was read: 'end'.
FdEnd ==
    /\ InLoop /\ fd.state = "open" /\ fd.pos = Len(artifact.content)
    /\ fd' = [fd EXCEPT !.state = "ended"]
    /\ LET r == Emit(listeners, "fd", "end", None, hash, promise)
       IN  Settle(r.hash, r.promise)
    /\ UNCHANGED <<STAGE, artifact, control, frontend, listeners>>

\* The hash, ended by the pipe, has flushed: 'finish' on the hash.
HashFinish ==
    /\ InLoop /\ hash.ended /\ ~hash.finished
    /\ LET r == Emit(listeners, "hash", "finish", None,
                     [hash EXCEPT !.finished = TRUE], promise)
       IN  Settle(r.hash, r.promise)
    /\ UNCHANGED <<STAGE, artifact, control, frontend, listeners, fd>>

\* The file descriptor was closed: 'close'.
FdClose ==
    /\ InLoop /\ fd.state = "ended" /\ (hash.ended => hash.finished)
    /\ fd' = [fd EXCEPT !.state = "closed"]
    /\ LET r == Emit(listeners, "fd", "close", None, hash, promise)
       IN  Settle(r.hash, r.promise)
    /\ UNCHANGED <<STAGE, artifact, control, frontend, listeners>>

\* Nothing is left for the event loop to wait for: the process exits.
ProcessExit ==
    /\ InLoop /\ fd.state = "closed"
    /\ proc' = "exited"
    /\ UNCHANGED <<STAGE, artifact, control, uncaught, iife, app, frontend,
                   backend, resources, fd, hash, listeners, promise>>

-----------------------------------------------------------------------------

Next ==
    \/ NewApp
    \/ NewFrontendStack
    \/ CallBackendStack
    \/ DeclareProvider
    \/ DeclareTable
    \/ DeclareRole
    \/ DeclareLogs
    \/ DeclareApi
    \/ DeclareStage
    \/ CallFilehash
    \/ SuspendBackendStack
    \/ AwaitBackendStack
    \/ FdOpen
    \/ FdError
    \/ FdData
    \/ FdEnd
    \/ HashFinish
    \/ FdClose
    \/ ProcessExit

Spec == Init /\ [][Next]_vars

-----------------------------------------------------------------------------
(* What the properties below talk about *)

Ids == {resources[i].id : i \in DOMAIN resources}

IdsInOrder == [i \in DOMAIN resources |-> resources[i].id]

Before_await == <<"AWS", "todos-table", "lambda-role", "todos-logs",
                  "todos-api", "default-stage">>

After_await == <<"lambda-api", "lambda-permission",
                 "todos-lambda-integration", "todos-lambda-rooute", "api-url">>

StageNamedIds == {"todos-table", "lambda-role", "todos-logs", "todos-api",
                  "lambda-api"}

NamesFor(s) == {TableName(s), RoleName(s), PolicyName(s), LogGroupName(s),
                ApiName(s), FunctionName(s)}

Readable == artifact.readable

-----------------------------------------------------------------------------
(* C1: filehash's promise is resolved only after end-of-stream was observed *)
(* and every byte of the file was written to the hash: while bytes are      *)
(* unread or unhashed the promise is not resolved.                          *)
C1_DigestOnlyAfterEndOfStream ==
    promise.state = "resolved" =>
        /\ fd.state \in {"ended", "closed"}
        /\ fd.pos = Len(artifact.content)
        /\ hash.written = artifact.content

C1_Witness ==
    /\ fd.state = "open"
    /\ 0 < fd.pos /\ fd.pos < Len(artifact.content)
    /\ hash.written # artifact.content
    /\ promise.state = "pending"

(* C2: with a readable artifact a run that has come to its end has had the  *)
(* digest delivered, BackendStack finished and app.synth() invoked.         *)
C2_ReadableRunReachesSynth ==
    (proc = "exited" /\ Readable) =>
        /\ promise.state = "resolved"
        /\ backend.pc = "done"
        /\ app.synthCount = 1

(* C3: with a missing or unreadable artifact the hashing step fails with    *)
(* the open error (ENOENT when missing), the Lambda function is never       *)
(* declared, app.synth() is never invoked and the run never ends normally.  *)
C3_MissingArtifactFails ==
    ~Readable =>
        /\ app.synthCount = 0
        /\ "lambda-api" \notin Ids
        /\ proc # "exited"
        /\ fd.state = "errored" =>
              /\ proc = "crashed"
              /\ uncaught = IF artifact.exists THEN "EACCES" ELSE "ENOENT"

C3_Witness ==
    /\ ~artifact.exists
    /\ fd.state = "errored"
    /\ proc = "crashed"
    /\ uncaught = "ENOENT"
    /\ backend.pc = "awaitHash"

(* C4 as stated: when the hash failure occurs no resource definition has    *)
(* been added to the backend stack.                                         *)
C4_NoResourceAtHashFailure ==
    fd.state = "errored" => resources = <<>>

(* C4 amended: when the hash failure occurs the backend stack holds exactly *)
(* the provider, table, role, log group, API and stage; no Lambda function, *)
(* permission, integration, route or output has been added and nothing has  *)
(* been synthesized.                                                        *)
C4_OnlyPreAwaitResourcesAtHashFailure ==
    fd.state = "errored" =>
        /\ IdsInOrder = Before_await
        /\ app.synthCount = 0

C4_Witness ==
    /\ fd.state = "errored"
    /\ ~Readable
    /\ Len(resources) = Len(Before_await)
    /\ "todos-table" \in Ids

(* C5: BackendStack called with an empty stage declares no resource whose   *)
(* name is built from the empty stage; it stops with an error instead.      *)
C5_EmptyStageFailsFast ==
    backend.stage = "" =>
        /\ \A i \in DOMAIN resources : resources[i].name \notin NamesFor("")
        /\ backend.pc \in {"provider", "threw"}

(* C6: every name BackendStack generates is the stage's own name for that   *)
(* resource, and no name generated for one stage equals a name generated    *)
(* for another stage.                                                       *)
C6_NamesInjectiveAcrossStages ==
    /\ \A i \in DOMAIN resources :
          resources[i].id \in StageNamedIds =>
              /\ resources[i].name \in NamesFor(STAGE)
              /\ \A s \in Stages \ {STAGE} : resources[i].name \notin NamesFor(s)
    /\ \A i \in DOMAIN resources :
          resources[i].id = "lambda-role" =>
              \A s \in Stages \ {STAGE} : resources[i].ref \notin NamesFor(s)
    /\ \A s \in Stages \ {STAGE} : NamesFor(STAGE) \cap NamesFor(s) = {}

C6_Witness ==
    /\ STAGE = "dev"
    /\ StageNamedIds \ {"lambda-api"} \subseteq Ids
    /\ \E i \in DOMAIN resources : resources[i].name = "todo-cdktf-stack-dev"

(* C7: an invocation of filehash that has consumed its whole stream has     *)
(* returned the digest of the file's content, the content being unchanged.  *)
C7_CompletedInvocationReturnsDigest ==
    (fd.state = "closed" /\ hash.finished) =>
        /\ promise.state = "resolved"
        /\ promise.value = Digest(artifact.content)

(* C8: the frontend stack is constructed before BackendStack is started,    *)
(* BackendStack gets the frontend's url, which does not change once         *)
(* produced, and app.synth() is invoked at most once and only after         *)
(* BackendStack has completed with every backend resource declared.         *)
C8_OrchestratorOrder ==
    /\ [](/\ backend.pc # "idle" =>
                /\ app.created
                /\ frontend.constructed
                /\ backend.frontendUrl = frontend.url
                /\ backend.stage = STAGE
          /\ app.synthCount <= 1
          /\ app.synthCount = 1 =>
                /\ backend.pc = "done"
                /\ IdsInOrder = Before_await \o After_await)
    /\ [][frontend.constructed => frontend' = frontend]_vars

C8_Witness ==
    /\ iife = "awaitBackend"
    /\ backend.pc = "awaitHash"
    /\ frontend.constructed
    /\ backend.frontendUrl = frontend.url
    /\ backend.frontendUrl \in FrontendUrls
    /\ app.synthCount = 0

(* C9: the Lambda function is declared only once filehash has delivered the *)
(* digest that becomes its sourceCodeHash, and control is yielded to the    *)
(* event loop only to wait for that hash.                                   *)
C9_LambdaAfterHashOnlySuspension ==
    /\ [](\A i \in DOMAIN resources :
            resources[i].id = "lambda-api" =>
                /\ promise.state = "resolved"
                /\ resources[i].ref = promise.value)
    /\ [][(control = "js" /\ control' = "loop") =>
            /\ backend'.pc = "awaitHash"
            /\ promise'.state = "pending"]_vars
    /\ [][control = "loop" => control' = "loop"]_vars

C9_Witness ==
    /\ control = "loop"
    /\ backend.pc = "awaitHash"
    /\ iife = "awaitBackend"
    /\ promise.state = "pending"
    /\ fd.state = "open"
    /\ IdsInOrder = Before_await

(* C10: filehash's promise is never rejected and never settled twice; after *)
(* a read-stream error BackendStack is still suspended at its await, its    *)
(* promise pending: it is resumed neither with a digest nor an exception.   *)
C10_NeverRejectedNeverResumedAfterError ==
    /\ [](/\ promise.state # "rejected"
          /\ backend.pc # "threw"
          /\ fd.state = "errored" =>
                /\ promise.state = "pending"
                /\ backend.pc = "awaitHash"
                /\ backend.promise = "pending")
    /\ [][promise.state \in {"resolved", "rejected"} => promise' = promise]_vars

C10_Witness ==
    /\ fd.state = "errored"
    /\ backend.pc = "awaitHash"
    /\ promise.state = "pending"
    /\ proc = "crashed"

====
